---- MODULE Spec2Model ----
(***************************************************************************)
(* The cats application: the persisted store of models.py (Cat,            *)
(* Achievement, AchievementCat rows and their constraints) and the         *)
(* handlers of serializers.py (CatSerializer.create / update, one action   *)
(* per ORM statement; Hex2NameColor and Base64ImageField as operators).    *)
(***************************************************************************)
EXTENDS Integers, Sequences, FiniteSets, Bags, TLC

\* ------------------------------------------------------------------ bounds
\* Requests served in one behaviour.
MaxOps == 2
\* Longest achievements list of a payload.
MaxList == 2
\* Requests served in one behaviour of SpecFrame (two creates, then updates).
MaxFrameOps == 3
\* Requests served in one behaviour of SpecConc (both workers together).
MaxConcOps == 3
\* Longest base64 payload given to Base64ImageField.
MaxPayload == 4

\* --------------------------------------------------------- input domains
Workers == {"w1", "w2"}
Owners == {"u1", "u2"}
\* image = None (null=True)
NoImage == "null"
AchNames == {"Climber", "Hunter"}
\* Cat.Meta.constraints: birth_year__gt=1900
MinYear == 1900
\* Cat.Meta.constraints: birth_year__lt=2100
MaxYear == 2100
Years == {MinYear, MinYear + 1, MaxYear - 1, MaxYear}


\* ------------------------------------------------------------------ state
VARIABLES
    cats,      \* table Cat: set of rows [id, name, color, birth_year, owner, image]
    achs,      \* table Achievement: set of rows [id, name]
    joins,     \* table AchievementCat: bag of rows <<achievement id, cat id>>
    pc,        \* per worker: the statement of the handler it is about to run
    op,        \* per worker: "create" | "update" | "none"
    vdata,     \* per worker: validated_data (a dict: function on its keys)
    inst,      \* per worker: the in-memory Cat instance
    achData,   \* per worker: the popped achievements, [given, list]
    idx,       \* per worker: position of the attachment loop (1-based)
    cur,       \* per worker: id of the achievement get_or_create returned
    err,       \* per worker: the exception that ended the handler and its statement
    pre,       \* per worker: the store as it was when the handler was called
    ops,       \* requests started so far
    field,     \* the serializer field under call: "color" | "image" | "none"
    fin,       \* the field's input: a string, as a sequence of characters
    fout,      \* the field's outcome
    flog       \* records written to the module's logger

storeVars == <<cats, achs, joins>>
workerVars == <<pc, op, vdata, inst, achData, idx, cur, err, pre, ops>>
fieldVars == <<field, fin, fout, flog>>
vars == <<cats, achs, joins, pc, op, vdata, inst, achData, idx, cur, err, pre, ops,
          field, fin, fout, flog>>

\* ---------------------------------------------------------------- helpers
\* dict.get(key, default)
Get(d, key, default) == IF key \in DOMAIN d THEN d[key] ELSE default

\* The dict left by dict.pop(key, ...)
Without(d, key) == [x \in (DOMAIN d) \ {key} |-> d[x]]

\* The optional entries of a dict: no entry, or key -> v for v in S.
Opt(key, S) == {[x \in {} |-> 0]} \cup {[x \in {key} |-> v] : v \in S}

\* Lists of achievement descriptors {name: n}, as AchievementSerializer(many=True)
\* hands them over (source='name').
AchLists == UNION {[1..n -> {[name |-> a] : a \in AchNames}] : n \in 0..MaxList}

\* Next primary key of a table (no row is ever deleted by this layer).
NextId(rows) == Cardinality(rows) + 1

\* Variant: the lower end of the range taken as inclusive.
BirthYearOffByOne(y) == y >= MinYear /\ y < MaxYear

\* CheckConstraint birth_year_reasonable
BirthYearReasonable(y) == y > MinYear /\ y < MaxYear

\* Rows of AchievementCat that link cat c
JoinsOf(js, c) == {r \in BagToSet(js) : r[2] = c}

\* Variant: the relation is not cleared (the new list is merged in).
ClearNothing(js, c) == js

\* The join table after instance.achievements.clear() on cat c
ClearJoins(js, c) == [r \in (BagToSet(js) \ JoinsOf(js, c)) |-> js[r]]

\* Variant: no uniqueness constraint on the pair.
UniqueNever(js, a, c) == TRUE

\* unique_together = ['achievement', 'cat']: may (a, c) be inserted?
UniqueTogether(js, a, c) == ~BagIn(<<a, c>>, js)

\* Variant: the lookup never matches (a bare create for every descriptor).
LookupNothing(rows, n) == {}

\* Achievement.objects.get(name=n): the rows the query matches
Lookup(rows, n) == {a \in rows : a.name = n}

NoDict == [x \in {} |-> 0]
NoAch == [given |-> FALSE, list |-> <<>>]
NoErr == [type |-> "none", at |-> "none"]
NoPre == [cats |-> {}, achs |-> {}, joins |-> EmptyBag]
NoOut == [kind |-> "none"]

\* ------------------------------------------------------------------- Init
\* The empty database, every worker idle.
InitStore ==
    /\ cats = {}
    /\ achs = {}
    /\ joins = EmptyBag
    /\ pc = [w \in Workers |-> "idle"]
    /\ op = [w \in Workers |-> "none"]
    /\ vdata = [w \in Workers |-> NoDict]
    /\ inst = [w \in Workers |-> NoDict]
    /\ achData = [w \in Workers |-> NoAch]
    /\ idx = [w \in Workers |-> 1]
    /\ cur = [w \in Workers |-> 0]
    /\ err = [w \in Workers |-> NoErr]
    /\ pre = [w \in Workers |-> NoPre]
    /\ ops = 0

\* ... and no field call under way.
Init ==
    /\ InitStore
    /\ field = "none"
    /\ fin = <<>>
    /\ fout = NoOut
    /\ flog = <<>>

\* ------------------------------------------------------- CatSerializer.create
\* After the loop's last statement: the next descriptor, or the return.
LoopNext(w, i) == IF i > Len(achData[w].list) THEN "done" ELSE "get"

\* The handler is called: its locals are set, the store as it is is remembered.
Called(w, kind, data, limit) ==
    /\ pc[w] = "idle"
    /\ ops < limit
    /\ ops' = ops + 1
    /\ op' = [op EXCEPT ![w] = kind]
    /\ vdata' = [vdata EXCEPT ![w] = Without(data, "achievements")]
    /\ achData' = [achData EXCEPT ![w] =
                     [given |-> "achievements" \in DOMAIN data,
                      list |-> Get(data, "achievements", <<>>)]]
    /\ idx' = [idx EXCEPT ![w] = 1]
    /\ cur' = [cur EXCEPT ![w] = 0]
    /\ err' = [err EXCEPT ![w] = NoErr]
    /\ pre' = [pre EXCEPT ![w] = [cats |-> cats, achs |-> achs, joins |-> joins]]
    /\ UNCHANGED <<storeVars, fieldVars>>

\* The handler raises exception e at the statement it is about to run.
Raise(w, e) ==
    /\ pc' = [pc EXCEPT ![w] = "failed"]
    /\ err' = [err EXCEPT ![w] = [type |-> e, at |-> pc[w]]]

\* line 117: achievements = validated_data.pop('achievements', [])
CreateBegin(w, data, limit) ==
    /\ Called(w, "create", data, limit)
    /\ inst' = [inst EXCEPT ![w] = NoDict]
    /\ pc' = [pc EXCEPT ![w] = "create_cat"]

\* The row Cat.objects.create(**validated_data) inserts.
NewCatRow(d, id) ==
    [id |-> id, name |-> d.name, color |-> d.color, birth_year |-> d.birth_year,
     owner |-> d.owner, image |-> Get(d, "image", NoImage)]

\* line 118: cat = Cat.objects.create(**validated_data)
CreateCat(w) ==
    /\ pc[w] = "create_cat"
    /\ IF BirthYearReasonable(vdata[w].birth_year)
       THEN /\ cats' = cats \cup {NewCatRow(vdata[w], NextId(cats))}
            /\ inst' = [inst EXCEPT ![w] = NewCatRow(vdata[w], NextId(cats))]
            /\ pc' = [pc EXCEPT ![w] = LoopNext(w, 1)]
            /\ err' = err
       ELSE /\ Raise(w, "IntegrityError")
            /\ UNCHANGED <<cats, inst>>
    /\ UNCHANGED <<achs, joins, op, vdata, achData, idx, cur, pre, ops, fieldVars>>

\* ------------------------------------------------ the attachment loop
\* lines 121 / 142, get_or_create's lookup: Achievement.objects.get(**achievement_data)
AchGet(w) ==
    /\ pc[w] = "get"
    /\ LET found == Lookup(achs, achData[w].list[idx[w]].name)
       IN  IF Cardinality(found) = 1
           THEN /\ cur' = [cur EXCEPT ![w] = (CHOOSE a \in found : TRUE).id]
                /\ pc' = [pc EXCEPT ![w] = "join"]
                /\ err' = err
           ELSE IF found = {}
           THEN /\ pc' = [pc EXCEPT ![w] = "insert"]
                /\ UNCHANGED <<cur, err>>
           ELSE /\ Raise(w, "MultipleObjectsReturned")
                /\ cur' = cur
    /\ UNCHANGED <<storeVars, op, vdata, inst, achData, idx, pre, ops, fieldVars>>

\* lines 121 / 142, get_or_create's insert after DoesNotExist
AchInsert(w) ==
    /\ pc[w] = "insert"
    /\ achs' = achs \cup {[id |-> NextId(achs), name |-> achData[w].list[idx[w]].name]}
    /\ cur' = [cur EXCEPT ![w] = NextId(achs)]
    /\ pc' = [pc EXCEPT ![w] = "join"]
    /\ UNCHANGED <<cats, joins, op, vdata, inst, achData, idx, err, pre, ops, fieldVars>>

\* Variant: the handler runs in one transaction, undone when the insert fails.
JoinCreateRolledBack(w) ==
    /\ pc[w] = "join"
    /\ IF UniqueTogether(joins, cur[w], inst[w].id)
       THEN /\ joins' = joins (+) SetToBag({<<cur[w], inst[w].id>>})
            /\ idx' = [idx EXCEPT ![w] = idx[w] + 1]
            /\ pc' = [pc EXCEPT ![w] = LoopNext(w, idx[w] + 1)]
            /\ err' = err
            /\ UNCHANGED <<cats, achs>>
       ELSE /\ Raise(w, "IntegrityError")
            /\ cats' = pre[w].cats
            /\ achs' = pre[w].achs
            /\ joins' = pre[w].joins
            /\ idx' = idx
    /\ UNCHANGED <<op, vdata, inst, achData, cur, pre, ops, fieldVars>>

\* lines 122 / 143: AchievementCat.objects.create(achievement=achievement, cat=...)
JoinCreate(w) ==
    /\ pc[w] = "join"
    /\ IF UniqueTogether(joins, cur[w], inst[w].id)
       THEN /\ joins' = joins (+) SetToBag({<<cur[w], inst[w].id>>})
            /\ idx' = [idx EXCEPT ![w] = idx[w] + 1]
            /\ pc' = [pc EXCEPT ![w] = LoopNext(w, idx[w] + 1)]
            /\ err' = err
       ELSE /\ Raise(w, "IntegrityError")
            /\ UNCHANGED <<joins, idx>>
    /\ UNCHANGED <<cats, achs, op, vdata, inst, achData, cur, pre, ops, fieldVars>>

\* ------------------------------------------------------- CatSerializer.update
\* Variant: owner is assigned from the input like the other fields.
AssignedWithOwner(row, d) ==
    [row EXCEPT !.name = Get(d, "name", row.name),
                !.color = Get(d, "color", row.color),
                !.birth_year = Get(d, "birth_year", row.birth_year),
                !.image = Get(d, "image", row.image),
                !.owner = Get(d, "owner", row.owner)]

\* lines 132-135: instance.<f> = validated_data.get('<f>', instance.<f>)
Assigned(row, d) ==
    [row EXCEPT !.name = Get(d, "name", row.name),
                !.color = Get(d, "color", row.color),
                !.birth_year = Get(d, "birth_year", row.birth_year),
                !.image = Get(d, "image", row.image)]

\* lines 130-135, on the instance the caller loaded from the store
UpdateBegin(w, row, data, limit) ==
    /\ row \in cats
    /\ Called(w, "update", data, limit)
    /\ inst' = [inst EXCEPT ![w] = Assigned(row, Without(data, "achievements"))]
    /\ pc' = [pc EXCEPT ![w] = "save"]

\* Variant: the save before the relation is touched is missing.
SavedNowhere(rows, row) == rows

\* The Cat table after UPDATE ... WHERE id = row.id
Saved(rows, row) == {r \in rows : r.id # row.id} \cup {row}

\* line 136: instance.save()
UpdateSave(w) ==
    /\ pc[w] = "save"
    /\ IF BirthYearReasonable(inst[w].birth_year)
       THEN /\ cats' = Saved(cats, inst[w])
            /\ pc' = [pc EXCEPT ![w] = IF achData[w].given THEN "clear" ELSE "done"]
            /\ err' = err
       ELSE /\ Raise(w, "IntegrityError")
            /\ cats' = cats
    /\ UNCHANGED <<achs, joins, op, vdata, inst, achData, idx, cur, pre, ops, fieldVars>>

\* line 140: instance.achievements.clear()
UpdateClear(w) ==
    /\ pc[w] = "clear"
    /\ joins' = ClearJoins(joins, inst[w].id)
    /\ pc' = [pc EXCEPT ![w] = LoopNext(w, 1)]
    /\ UNCHANGED <<cats, achs, op, vdata, inst, achData, idx, cur, err, pre, ops, fieldVars>>

\* lines 124 / 145 (return), or the exception leaving the handler
Finish(w) ==
    /\ pc[w] \in {"done", "failed"}
    /\ pc' = [pc EXCEPT ![w] = "idle"]
    /\ UNCHANGED <<storeVars, op, vdata, inst, achData, idx, cur, err, pre, ops, fieldVars>>

\* One statement of the handler worker w is in.
Step(w) ==
    \/ CreateCat(w)
    \/ AchGet(w)
    \/ AchInsert(w)
    \/ JoinCreate(w)
    \/ UpdateSave(w)
    \/ UpdateClear(w)
    \/ Finish(w)

\* --------------------------------------------------------------- payloads
\* validated_data of a create: the required fields, the owner the view adds,
\* optionally image and achievements. Every birth year without achievements,
\* every achievements list on a second, valid cat (image included), and an
\* out-of-range birth year with achievements.
CreateInputs ==
    {[name |-> "Tom", color |-> "white", birth_year |-> y, owner |-> "u1"] :
        y \in Years}
    \cup {[name |-> "Kit", color |-> "black", birth_year |-> MinYear + 1,
           owner |-> "u2", image |-> "temp.png"] @@ a :
        a \in Opt("achievements", AchLists)}
    \cup {[name |-> "Tom", color |-> "white", birth_year |-> MaxYear, owner |-> "u1",
           achievements |-> <<[name |-> "Climber"]>>]}

\* validated_data of an update (partial): any of the writable fields, and the
\* owner when the view passes one to save(). Every combination of scalar
\* fields without achievements, and every achievements list with a birth year
\* that is absent, valid or out of range.
UpdateInputs ==
    {n @@ c @@ y @@ i :
        n \in Opt("name", {"Kit"}), c \in Opt("color", {"black"}),
        y \in Opt("birth_year", Years), i \in Opt("image", {"temp.png"})}
    \cup {y @@ o @@ a :
        y \in Opt("birth_year", {MinYear, MaxYear - 1}), o \in Opt("owner", {"u2"}),
        a \in Opt("achievements", AchLists)}

\* ------------------------------------------------------------ specifications
\* One request after another: a single worker serves them all.
Next ==
    \/ \E data \in CreateInputs : CreateBegin("w1", data, MaxOps)
    \/ \E row \in cats, data \in UpdateInputs : UpdateBegin("w1", row, data, MaxOps)
    \/ Step("w1")

Spec == Init /\ [][Next]_vars

\* Payloads of SpecFrame: two cats of different owners, and updates that carry
\* an owner, change every scalar field or fail at the save, with or without
\* achievements.
FrameCreateInputs ==
    {[name |-> "Tom", color |-> "white", birth_year |-> MinYear + 1, owner |-> "u1",
      achievements |-> <<[name |-> "Climber"]>>],
     [name |-> "Kit", color |-> "black", birth_year |-> MaxYear - 1, owner |-> "u2",
      image |-> "temp.png", achievements |-> <<[name |-> "Climber"], [name |-> "Hunter"]>>]}

FrameUpdateInputs ==
    {s @@ o @@ a :
        s \in {NoDict,
               [name |-> "Kit", color |-> "black", birth_year |-> MaxYear - 1,
                image |-> "temp.png"],
               [name |-> "Kit", birth_year |-> MinYear]},
        o \in Opt("owner", Owners),
        a \in Opt("achievements", {<<>>, <<[name |-> "Hunter"]>>,
                                   <<[name |-> "Hunter"], [name |-> "Hunter"]>>})}

\* Sequential as Spec, over the payloads above and one more request.
FrameNext ==
    \/ \E data \in FrameCreateInputs : CreateBegin("w1", data, MaxFrameOps)
    \/ \E row \in cats, data \in FrameUpdateInputs :
          UpdateBegin("w1", row, data, MaxFrameOps)
    \/ Step("w1")

SpecFrame == Init /\ [][FrameNext]_vars

\* Payloads of SpecConc: requests that submit the same achievement names.
ConcCreateInputs ==
    {[name |-> "Tom", color |-> "white", birth_year |-> MinYear + 1, owner |-> "u1",
      achievements |-> <<[name |-> "Climber"]>>],
     [name |-> "Kit", color |-> "black", birth_year |-> MaxYear - 1, owner |-> "u2"]}

ConcUpdateInputs ==
    {[achievements |-> <<[name |-> "Climber"]>>], [name |-> "Kit"]}

\* Two workers serve requests at once; each ORM statement is one atomic step
\* (the database is in autocommit mode, the handlers open no transaction).
ConcNext ==
    \E w \in Workers :
        \/ \E data \in ConcCreateInputs : CreateBegin(w, data, MaxConcOps)
        \/ \E row \in cats, data \in ConcUpdateInputs :
              UpdateBegin(w, row, data, MaxConcOps)
        \/ Step(w)

SpecConc == Init /\ [][ConcNext]_vars


\* ------------------------------------------------- strings, as in Python
\* A string is the sequence of its characters.
StartsWith(s, p) == Len(s) >= Len(p) /\ SubSeq(s, 1, Len(p)) = p

\* str.find: the first position of sep in s, 0 when there is none
Find(s, sep) ==
    LET hits == {i \in 1..(Len(s) - Len(sep) + 1) : SubSeq(s, i, i + Len(sep) - 1) = sep}
    IN  IF hits = {} THEN 0 ELSE CHOOSE i \in hits : \A j \in hits : i <= j

\* str.split(sep)
RECURSIVE Split(_, _)
Split(s, sep) ==
    LET i == Find(s, sep)
    IN  IF i = 0 THEN <<s>>
        ELSE <<SubSeq(s, 1, i - 1)>> \o Split(SubSeq(s, i + Len(sep), Len(s)), sep)

\* ------------------------------------------------------------ Hex2NameColor
HexDigits == {"0", "1", "2", "3", "4", "5", "6", "7", "8", "9",
              "a", "b", "c", "d", "e", "f", "A", "B", "C", "D", "E", "F"}

\* str.lower on a hex digit
Lower(c) ==
    CASE c = "A" -> "a" [] c = "B" -> "b" [] c = "C" -> "c"
      [] c = "D" -> "d" [] c = "E" -> "e" [] c = "F" -> "f" [] OTHER -> c

\* webcolors.normalize_hex: '#' and 3 or 6 hex digits, the short form doubled,
\* lower-cased; [ok |-> FALSE] stands for its ValueError.
NormalizeHex(s) ==
    IF /\ Len(s) \in {4, 7}
       /\ s[1] = "#"
       /\ \A i \in 2..Len(s) : s[i] \in HexDigits
    THEN [ok |-> TRUE,
          hex |-> IF Len(s) = 4
                  THEN <<"#", Lower(s[2]), Lower(s[2]), Lower(s[3]), Lower(s[3]),
                         Lower(s[4]), Lower(s[4])>>
                  ELSE [i \in 1..7 |-> Lower(s[i])]]
    ELSE [ok |-> FALSE, hex |-> <<>>]

\* The entries of the CSS3 hex-to-name table the inputs below can hit.
Css3HexToNames ==
    {<<<<"#", "f", "f", "f", "f", "f", "f">>, <<"w", "h", "i", "t", "e">>>>,
     <<<<"#", "0", "0", "0", "0", "0", "0">>, <<"b", "l", "a", "c", "k">>>>,
     <<<<"#", "f", "f", "0", "0", "0", "0">>, <<"r", "e", "d">>>>}

\* webcolors.hex_to_name(data): the name, or ValueError
HexToName(s) ==
    LET n == NormalizeHex(s)
        named == {e \in Css3HexToNames : n.ok /\ e[1] = n.hex}
    IN  IF named = {} THEN [ok |-> FALSE, name |-> <<>>]
        ELSE [ok |-> TRUE, name |-> (CHOOSE e \in named : TRUE)[2]]

\* Hex2NameColor.to_internal_value
Hex2NameToInternal(data) ==
    LET r == HexToName(data)
    IN  IF r.ok THEN [kind |-> "value", value |-> r.name]
        ELSE [kind |-> "ValidationError"]

\* Hex2NameColor.to_representation
Hex2NameToRepresentation(value) == value

ColorInputs ==
    {<<"#", "f", "f", "f", "f", "f", "f">>,
     <<"#", "F", "F", "F", "F", "F", "F">>,
     <<"#", "f", "f", "f">>,
     <<"#", "F", "F", "F">>,
     <<"#", "0", "0", "0", "0", "0", "0">>,
     <<"#", "0", "0", "0">>,
     <<"#", "f", "f", "0", "0", "0", "0">>,
     <<"#", "F", "0", "0">>,
     <<"#", "F", "f", "0", "0", "0", "0">>,
     <<"#", "1", "2", "3", "4", "5", "6">>,
     <<"#", "1", "2", "3">>,
     <<"#", "f", "f", "f", "f">>,
     <<"f", "f", "f", "f", "f", "f">>,
     <<"#", "g", "g", "g">>,
     <<"#", "f", "f", "f", "f", "f", "g">>,
     <<"w", "h", "i", "t", "e">>,
     <<"b", "l", "a", "c", "k">>,
     <<"r", "e", "d">>,
     <<"W", "h", "i", "t", "e">>,
     <<>>}

\* CatSerializer.color is given a write input
ColorToInternal ==
    /\ field = "color"
    /\ fout.kind = "none"
    /\ fout' = Hex2NameToInternal(fin)
    /\ UNCHANGED <<storeVars, workerVars, field, fin, flog>>

\* ... and the value it stored is read back
ColorToRepresentation ==
    /\ field = "color"
    /\ fout.kind = "value"
    /\ fout' = [kind |-> "repr", stored |-> fout.value,
                value |-> Hex2NameToRepresentation(fout.value)]
    /\ UNCHANGED <<storeVars, workerVars, field, fin, flog>>

\* --------------------------------------------------------- Base64ImageField
Base64Alphabet ==
    <<
      "A", "B", "C", "D", "E", "F", "G", "H", "I", "J", "K", "L", "M", "N", "O", "P",
      "Q", "R", "S", "T", "U", "V", "W", "X", "Y", "Z", "a", "b", "c", "d", "e", "f",
      "g", "h", "i", "j", "k", "l", "m", "n", "o", "p", "q", "r", "s", "t", "u", "v",
      "w", "x", "y", "z", "0", "1", "2", "3", "4", "5", "6", "7", "8", "9", "+", "/">>

Base64Pad == "="

\* binascii's table_a2b_base64: the 6-bit value of a character, 64 for a
\* character outside the alphabet
Base64Value(c) ==
    LET at == {i \in 1..Len(Base64Alphabet) : Base64Alphabet[i] = c}
    IN  IF at = {} THEN 64 ELSE (CHOOSE i \in at : TRUE) - 1

\* binascii.a2b_base64(s) as base64.b64decode(s) calls it (validate=False):
\* characters outside the alphabet are skipped, a complete pad sequence ends
\* the input, leftover characters are an error (binascii.Error).
\* i: position, quad: characters of the current group, left: the bits carried,
\* pads: pad characters seen in a row, out: the bytes so far.
RECURSIVE A2bBase64(_, _, _, _, _, _)
A2bBase64(s, i, quad, left, pads, out) ==
    IF i > Len(s)
    THEN [ok |-> quad = 0, bytes |-> out]
    ELSE IF s[i] = Base64Pad
    THEN IF quad >= 2 /\ quad + pads + 1 >= 4
         THEN [ok |-> TRUE, bytes |-> out]
         ELSE A2bBase64(s, i + 1, quad, left, IF quad >= 2 THEN pads + 1 ELSE pads, out)
    ELSE LET v == Base64Value(s[i])
         IN  IF v >= 64
             THEN A2bBase64(s, i + 1, quad, left, pads, out)
             ELSE CASE quad = 0 -> A2bBase64(s, i + 1, 1, v, 0, out)
                    [] quad = 1 -> A2bBase64(s, i + 1, 2, v % 16, 0,
                                             Append(out, left * 4 + v \div 16))
                    [] quad = 2 -> A2bBase64(s, i + 1, 3, v % 4, 0,
                                             Append(out, left * 16 + v \div 4))
                    [] OTHER -> A2bBase64(s, i + 1, 0, 0, 0,
                                          Append(out, left * 64 + v))

\* base64.b64decode(imgstr)
B64Decode(s) == A2bBase64(s, 1, 0, 0, 0, <<>>)

DataImage == <<"d", "a", "t", "a", ":", "i", "m", "a", "g", "e">>
Base64Sep == <<";", "b", "a", "s", "e", "6", "4", ",">>
TempDot == <<"t", "e", "m", "p", ".">>

\* Base64ImageField.to_internal_value up to the call of the parent's
\* to_internal_value: what is raised and logged, or what is handed over.
Base64ToInternal(data) ==
    IF StartsWith(data, DataImage)
    THEN LET parts == Split(data, Base64Sep)
         IN  IF Len(parts) # 2
             THEN [kind |-> "ValidationError", logged |-> "ValueError"]
             ELSE LET ext == Split(parts[1], <<"/">>)[Len(Split(parts[1], <<"/">>))]
                      dec == B64Decode(parts[2])
                  IN  IF dec.ok
                      THEN [kind |-> "super", file |-> TRUE,
                            name |-> TempDot \o ext, content |-> dec.bytes]
                      ELSE [kind |-> "ValidationError", logged |-> "binascii.Error"]
    ELSE [kind |-> "super", file |-> FALSE, name |-> <<>>, content |-> data]

ImageHeaders ==
    {<<"d", "a", "t", "a", ":", "i", "m", "a", "g", "e", "/", "p", "n", "g">>,
     <<"d", "a", "t", "a", ":", "i", "m", "a", "g", "e", "/", "s", "v", "g", "+", "x", "m", "l">>,
     <<"d", "a", "t", "a", ":", "i", "m", "a", "g", "e">>,
     <<"d", "a", "t", "a", ":", "i", "m", "a", "g", "e", "p", "n", "g">>}

ImageSeparators ==
    {<<";", "b", "a", "s", "e", "6", "4", ",">>,
     <<";", "b", "a", "s", "e", "6", "4">>,
     <<";", "b", "a", "s", "e", "6", "4", ",", ";", "b", "a", "s", "e", "6", "4", ",">>}

PayloadChars == {"Q", "U", "=", "!"}

Payloads == UNION {[1..n -> PayloadChars] : n \in 0..MaxPayload}

\* data URLs, well-formed and not, and a value that is no data URL
ImageInputs ==
    {h \o s \o p : h \in ImageHeaders, s \in ImageSeparators, p \in Payloads}
    \cup {<<"c", "a", "t", ".", "p", "n", "g">>}

\* CatSerializer.image is given a write input
ImageToInternal ==
    /\ field = "image"
    /\ fout.kind = "none"
    /\ fout' = Base64ToInternal(fin)
    /\ flog' = IF Base64ToInternal(fin).kind = "ValidationError"
               THEN Append(flog, [level |-> "error",
                                  detail |-> Base64ToInternal(fin).logged])
               ELSE flog
    /\ UNCHANGED <<storeVars, workerVars, field, fin>>

\* A field call on some input, on the empty store.
FieldInit ==
    /\ InitStore
    /\ \/ field = "color" /\ fin \in ColorInputs
       \/ field = "image" /\ fin \in ImageInputs
    /\ fout = NoOut
    /\ flog = <<>>

FieldNext ==
    \/ ColorToInternal
    \/ ColorToRepresentation
    \/ ImageToInternal

SpecFields == FieldInit /\ [][FieldNext]_vars


\* ================================================================= claims
\* What the claims speak of, read off the store.

\* The Achievement rows cat c is linked to
AchRowsOf(as, js, c) == {a \in as : BagIn(<<a.id, c>>, js)}

\* ... and their names
NamesOf(as, js, c) == {a.name : a \in AchRowsOf(as, js, c)}

\* The names a list of descriptors submits
ListNames(l) == {l[i].name : i \in DOMAIN l}

\* No name twice in the list
Distinct(l) == \A i, j \in DOMAIN l : l[i].name = l[j].name => i = j

\* The row of cat c
RowOf(rows, c) == CHOOSE r \in rows : r.id = c

InRange(y) == 1900 < y /\ y < 2100

\* ----------------------------------------------------------------- C1
\* C1: after a successful update, a Cat's achievement set is what it was when
\* the input has no 'achievements' key, and is exactly the set named by the
\* list (whole replacement, one join each) when the key is present with
\* distinct names; the empty list leaves none.
C1_UpdateReplacesAchievements ==
    \A w \in Workers :
        (op[w] = "update" /\ pc[w] = "done") =>
            LET c == inst[w].id
                l == achData[w].list
            IN  IF ~achData[w].given
                THEN /\ AchRowsOf(achs, joins, c) = AchRowsOf(pre[w].achs, pre[w].joins, c)
                     /\ \A r \in JoinsOf(joins, c) : CopiesIn(r, joins) = CopiesIn(r, pre[w].joins)
                ELSE Distinct(l) =>
                     /\ NamesOf(achs, joins, c) = ListNames(l)
                     /\ Cardinality(JoinsOf(joins, c)) = Len(l)
                     /\ \A r \in JoinsOf(joins, c) : CopiesIn(r, joins) = 1

\* An update replaced a non-empty set by a disjoint non-empty one.
C1_Witness ==
    \E w \in Workers :
        /\ op[w] = "update" /\ pc[w] = "done" /\ achData[w].given
        /\ NamesOf(pre[w].achs, pre[w].joins, inst[w].id) # {}
        /\ achData[w].list # <<>>
        /\ NamesOf(pre[w].achs, pre[w].joins, inst[w].id) \cap ListNames(achData[w].list) = {}
        /\ NamesOf(achs, joins, inst[w].id) = ListNames(achData[w].list)

\* ----------------------------------------------------------------- C2
\* C2: with requests served one after another, no two Achievement rows have
\* the same name; a handler adds no row for a name that had one and links the
\* existing row; a Cat created with [{name: n}] reads back with exactly one
\* achievement, named n.
C2_AchievementNamesUnique ==
    /\ \A a, b \in achs : a.name = b.name => a = b
    /\ \A w \in Workers :
        pc[w] \in {"done", "failed"} =>
            LET c == inst[w].id
                l == achData[w].list
            IN  /\ pre[w].achs \subseteq achs
                /\ \A a \in achs \ pre[w].achs : \A b \in pre[w].achs : a.name # b.name
                /\ pc[w] = "done" =>
                      \A i \in DOMAIN l :
                          \E a \in AchRowsOf(achs, joins, c) :
                              /\ a.name = l[i].name
                              /\ (l[i].name \in {b.name : b \in pre[w].achs}) => a \in pre[w].achs
                /\ (op[w] = "create" /\ pc[w] = "done" /\ Len(l) = 1) =>
                      /\ NamesOf(achs, joins, c) = {l[1].name}
                      /\ Cardinality(AchRowsOf(achs, joins, c)) = 1
                      /\ \A r \in JoinsOf(joins, c) : CopiesIn(r, joins) = 1

\* A second Cat was created with a name that had a row: the row is reused.
C2_Witness ==
    \E w \in Workers :
        /\ op[w] = "create" /\ pc[w] = "done" /\ Len(achData[w].list) = 1
        /\ pre[w].cats # {}
        /\ \E b \in pre[w].achs :
              /\ b.name = achData[w].list[1].name
              /\ BagIn(<<b.id, inst[w].id>>, joins)
        /\ achs = pre[w].achs

\* ----------------------------------------------------------------- C3
\* C3: no (achievement, cat) pair has two AchievementCat rows; a payload that
\* names an achievement twice ends in a constraint violation (IntegrityError)
\* and the pair keeps its single row.
C3_JoinPairsUnique ==
    /\ \A r \in BagToSet(joins) : CopiesIn(r, joins) = 1
    /\ \A w \in Workers :
        (pc[w] \in {"done", "failed"} /\ ~Distinct(achData[w].list)) =>
            /\ pc[w] = "failed"
            /\ err[w].type = "IntegrityError"
            /\ err[w].at = "join" => CopiesIn(<<cur[w], inst[w].id>>, joins) = 1

\* The insert of an existing pair was refused.
C3_Witness ==
    \E w \in Workers :
        /\ pc[w] = "failed" /\ err[w].at = "join" /\ err[w].type = "IntegrityError"
        /\ ~Distinct(achData[w].list)
        /\ CopiesIn(<<cur[w], inst[w].id>>, joins) = 1

\* ----------------------------------------------------------------- C4
\* C4: a create persists its Cat row exactly when 1900 < birth_year < 2100;
\* every persisted Cat has its birth_year in that range; an update that
\* supplies a birth_year out of the range fails at the save and leaves the
\* Cat table as it was.
C4_BirthYearInRange ==
    /\ \A r \in cats : InRange(r.birth_year)
    /\ \A w \in Workers :
        /\ (op[w] = "create" /\ pc[w] \in {"get", "insert", "join", "done", "failed"}) =>
              /\ InRange(vdata[w].birth_year) <=>
                    (\E r \in cats \ pre[w].cats : r.birth_year = vdata[w].birth_year)
              /\ ~InRange(vdata[w].birth_year) =>
                    (pc[w] = "failed" /\ cats = pre[w].cats)
        /\ (op[w] = "update" /\ pc[w] # "save" /\ "birth_year" \in DOMAIN vdata[w]
              /\ ~InRange(vdata[w].birth_year)) =>
              /\ err[w] = [type |-> "IntegrityError", at |-> "save"]
              /\ cats = pre[w].cats

\* An update with birth_year 2100 was refused, the stored row untouched.
C4_Witness ==
    \E w \in Workers :
        /\ op[w] = "update" /\ pc[w] = "failed" /\ err[w].at = "save"
        /\ "birth_year" \in DOMAIN vdata[w] /\ vdata[w].birth_year = 2100
        /\ cats = pre[w].cats
        /\ InRange(RowOf(cats, inst[w].id).birth_year)

\* ----------------------------------------------------------------- C7
\* C7: an update of Cat c, at every point of it and whatever its input
\* carries, leaves c's id and owner, every other Cat row and every other
\* Cat's join rows as they were, and deletes or renames no Achievement row.
C7_UpdateFrame ==
    \A w \in Workers :
        op[w] = "update" =>
            LET c == inst[w].id
            IN  /\ Cardinality({r \in cats : r.id = c}) = 1
                /\ RowOf(cats, c).owner = RowOf(pre[w].cats, c).owner
                /\ {r \in cats : r.id # c} = {r \in pre[w].cats : r.id # c}
                /\ \A r \in BagToSet(joins) \cup BagToSet(pre[w].joins) :
                      r[2] # c => CopiesIn(r, joins) = CopiesIn(r, pre[w].joins)
                /\ pre[w].achs \subseteq achs

\* An update that carried another owner renamed c and cleared its
\* achievements, beside a second Cat that has achievements.
C7_Witness ==
    \E w \in Workers :
        /\ op[w] = "update" /\ pc[w] = "done"
        /\ "owner" \in DOMAIN vdata[w]
        /\ vdata[w].owner # RowOf(cats, inst[w].id).owner
        /\ RowOf(cats, inst[w].id).name # RowOf(pre[w].cats, inst[w].id).name
        /\ achData[w].given
        /\ JoinsOf(pre[w].joins, inst[w].id) # {}
        /\ JoinsOf(joins, inst[w].id) = {}
        /\ \E r \in BagToSet(joins) : r[2] # inst[w].id

\* ----------------------------------------------------------------- C9
\* C9: in an update, once the handler is at a statement that touches the
\* relation (the clear, get_or_create, the join), or the relation or the
\* Achievement table differ from what they were, the stored row of the Cat
\* holds the scalar fields of the input; and when the save fails, join rows
\* and Achievement rows are what they were.
C9_PersistBeforeRelation ==
    \A w \in Workers :
        op[w] = "update" =>
            LET c == inst[w].id
                new == RowOf(cats, c)
                old == RowOf(pre[w].cats, c)
            IN  /\ (\/ pc[w] \in {"clear", "get", "insert", "join"}
                    \/ joins # pre[w].joins
                    \/ achs # pre[w].achs) =>
                      \A f \in {"name", "color", "birth_year", "image"} :
                          new[f] = Get(vdata[w], f, old[f])
                /\ (pc[w] = "failed" /\ err[w].at = "save") =>
                      (joins = pre[w].joins /\ achs = pre[w].achs)

\* The handler is about to clear the relation: the new birth year is stored,
\* the join rows are still there.
C9_Witness ==
    \E w \in Workers :
        /\ op[w] = "update" /\ pc[w] = "clear"
        /\ RowOf(cats, inst[w].id) # RowOf(pre[w].cats, inst[w].id)
        /\ RowOf(cats, inst[w].id) = inst[w]
        /\ JoinsOf(joins, inst[w].id) # {}
        /\ joins = pre[w].joins

\* ----------------------------------------------------------------- C10
\* C10: when the attachment loop fails at its k-th descriptor, the Cat row
\* (created, or saved by the update) is persisted, the Achievement rows of
\* the descriptors reached so far exist, and the Cat is linked to exactly the
\* first k-1 descriptors: in an update the earlier set is not restored.
C10_NoRollback ==
    \A w \in Workers :
        (pc[w] = "failed" /\ err[w].at \in {"get", "join"}) =>
            LET c == inst[w].id
                l == achData[w].list
                k == idx[w]
            IN  /\ inst[w] \in cats
                /\ op[w] = "create" => inst[w] \notin pre[w].cats
                /\ pre[w].achs \subseteq achs
                /\ \A i \in 1..(k - 1) : \E a \in achs : a.name = l[i].name
                /\ err[w].at = "join" => \E a \in achs : a.name = l[k].name
                /\ NamesOf(achs, joins, c) = {l[i].name : i \in 1..(k - 1)}
                /\ Cardinality(JoinsOf(joins, c)) = k - 1

\* An update failed at its second descriptor: the Cat has the first one's
\* achievement, and the set it had before is gone.
C10_Witness ==
    \E w \in Workers :
        /\ op[w] = "update" /\ pc[w] = "failed" /\ err[w].at = "join" /\ idx[w] = 2
        /\ NamesOf(pre[w].achs, pre[w].joins, inst[w].id) # {}
        /\ NamesOf(achs, joins, inst[w].id) = {achData[w].list[1].name}
        /\ NamesOf(pre[w].achs, pre[w].joins, inst[w].id) \cap NamesOf(achs, joins, inst[w].id) = {}

\* ----------------------------------------------------------------- C8
\* C8: with two requests under way at once, at most one Achievement row has
\* a given name, and when both have finished on different Cats after
\* submitting a name that had no row when either was called, both Cats are
\* linked to one and the same row of that name.
C8_GetOrCreateAtomic ==
    \A n \in AchNames :
        /\ Cardinality({a \in achs : a.name = n}) <= 1
        /\ (/\ \A w \in Workers :
                  /\ pc[w] = "done"
                  /\ n \in ListNames(achData[w].list)
                  /\ n \notin {b.name : b \in pre[w].achs}
            /\ \A v, w \in Workers : v # w => inst[v].id # inst[w].id) =>
              \E a \in achs :
                  /\ a.name = n
                  /\ \A w \in Workers : BagIn(<<a.id, inst[w].id>>, joins)

\* ----------------------------------------------------------------- C5
\* The names of the CSS3 table
CanonicalNames == {e[2] : e \in Css3HexToNames}

\* '#' and 3 or 6 hex digits
IsHexCode(s) ==
    /\ Len(s) \in {4, 7}
    /\ s[1] = "#"
    /\ \A i \in 2..Len(s) : s[i] \in HexDigits

\* The names the table gives hex code s (none, or one)
NamesOfHex(s) == {e[2] : e \in {x \in Css3HexToNames : x[1] = NormalizeHex(s).hex}}

\* The internal value a finished color call produced
InternalValue(o) == IF o.kind = "repr" THEN o.stored ELSE o.value

\* C5: the color normalizer returns the name of a hex code that has one,
\* returns a canonical name given as input, fails with a validation error on
\* a hex code without a name, and to_representation returns the stored name.
C5_ColorNormalizer ==
    (field = "color" /\ fout.kind # "none") =>
        /\ (IsHexCode(fin) /\ NamesOfHex(fin) # {}) =>
              (fout.kind \in {"value", "repr"} /\ InternalValue(fout) \in NamesOfHex(fin))
        /\ (fin \in CanonicalNames) =>
              (fout.kind \in {"value", "repr"} /\ InternalValue(fout) = fin)
        /\ (IsHexCode(fin) /\ NamesOfHex(fin) = {}) => fout.kind = "ValidationError"
        /\ fout.kind = "repr" => fout.value = fout.stored

\* ----------------------------------------------------------------- C6
\* RFC 4648 base64: alphabet characters in groups of four, at most two pad
\* characters, at the end only
ValidBase64(s) ==
    /\ Len(s) % 4 = 0
    /\ \A i \in 1..Len(s) : s[i] = Base64Pad \/ Base64Value(s[i]) < 64
    /\ \A i \in 1..Len(s) : s[i] = Base64Pad =>
          (i >= Len(s) - 1 /\ \A j \in i..Len(s) : s[j] = Base64Pad)

DataImageSlash == <<"d", "a", "t", "a", ":", "i", "m", "a", "g", "e", "/">>

\* 'data:image/<ext>;base64,<valid base64>', <ext> a non-empty subtype
WellFormedDataUrl(s) ==
    LET parts == Split(s, Base64Sep)
    IN  /\ Len(parts) = 2
        /\ StartsWith(parts[1], DataImageSlash)
        /\ Len(parts[1]) > Len(DataImageSlash)
        /\ \A i \in (Len(DataImageSlash) + 1)..Len(parts[1]) : parts[1][i] # "/"
        /\ ValidBase64(parts[2])

\* C6: on an input that starts with 'data:image', a malformed header or a
\* payload that is not valid base64 ends in a validation error with one
\* error-level log record and no file handed to the image field; a
\* well-formed data URL hands over the file temp.<ext> with the decoded bytes.
C6_ImageDecoder ==
    (field = "image" /\ fout.kind # "none" /\ StartsWith(fin, DataImage)) =>
        IF WellFormedDataUrl(fin)
        THEN LET parts == Split(fin, Base64Sep)
             IN  /\ fout.kind = "super"
                 /\ fout.file
                 /\ fout.name = TempDot \o SubSeq(parts[1], Len(DataImageSlash) + 1, Len(parts[1]))
                 /\ fout.content = B64Decode(parts[2]).bytes
        ELSE /\ fout.kind = "ValidationError"
             /\ Len(flog) = 1
             /\ flog[1].level = "error"

====
